---- MODULE Spec2Model ----
(***************************************************************************)
(* Model of ptp.utils.pipeline.Pipeline (src/ptp/utils/pipeline.py): the   *)
(* priority-keyed component registry, its construction from a              *)
(* configuration, the definition handshake and the execution pass.         *)
(*                                                                         *)
(* Strings that the code takes apart (type names, priorities, the skip     *)
(* value) are sequences of pieces; a section name is a single string.      *)
(* A float priority is a fixed-point integer with FracDigits decimals.     *)
(***************************************************************************)
EXTENDS Integers, Sequences, FiniteSets, TLC

VARIABLES
    problem,      \* self.problem: NoProblem or a component instance
    components,   \* self.__components: priority -> component instance
    priorities,   \* self.__priorities: [defined, list]; the attribute may not exist
    models,       \* self.models
    losses,       \* self.losses
    params,       \* the configuration mapping handed to build_pipeline
    pre,          \* the Pipeline's fields when the last operation started
    result        \* what the last operation did and returned or raised

vars == <<problem, components, priorities, models, losses, params, pre, result>>

(* ------------------------------ bounds -------------------------------- *)

\* Most sections in a configuration drawn by SpecBuild.
MaxSections == 3
\* Most sections in a configuration passed by one call in Spec.
MaxRebuild == 2
\* Decimals kept by the fixed-point image of a float.
FracDigits == 1

(* ------------------------- strings and floats ------------------------- *)

DigitChars == {"0", "1", "2", "3", "4", "5", "6", "7", "8", "9"}

DigitVal(c) ==
    CASE c = "0" -> 0 [] c = "1" -> 1 [] c = "2" -> 2 [] c = "3" -> 3
      [] c = "4" -> 4 [] c = "5" -> 5 [] c = "6" -> 6 [] c = "7" -> 7
      [] c = "8" -> 8 [] c = "9" -> 9

RECURSIVE Pow10(_)
Pow10(n) == IF n <= 0 THEN 1 ELSE 10 * Pow10(n - 1)

RECURSIVE IntOf(_)
IntOf(s) ==
    IF s = <<>> THEN 0
    ELSE IntOf(SubSeq(s, 1, Len(s) - 1)) * 10 + DigitVal(s[Len(s)])

AllDigits(s) == \A i \in DOMAIN s : s[i] \in DigitChars

\* float(text): digits with at most one point and at least one digit; anything
\* else is a ValueError.  Decimals past FracDigits are dropped (the precision
\* of the fixed-point image).
ParseFloat(s) ==
    LET dots == {i \in DOMAIN s : s[i] = "."}
        d    == IF dots = {} THEN Len(s) + 1 ELSE CHOOSE i \in dots : TRUE
        ip   == SubSeq(s, 1, d - 1)
        fp0  == SubSeq(s, d + 1, Len(s))
        fp   == IF Len(fp0) > FracDigits THEN SubSeq(fp0, 1, FracDigits) ELSE fp0
    IN  IF Cardinality(dots) > 1 \/ ~AllDigits(ip) \/ ~AllDigits(fp0)
           \/ Len(ip) + Len(fp0) = 0
        THEN [ok |-> FALSE, value |-> 0]
        ELSE [ok |-> TRUE,
              value |-> IntOf(ip) * Pow10(FracDigits)
                        + IntOf(fp) * Pow10(FracDigits - Len(fp))]

\* str.split(","): the pieces between the commas, none trimmed.
RECURSIVE SplitComma(_)
SplitComma(s) ==
    LET commas == {i \in DOMAIN s : s[i] = ","}
    IN  IF commas = {} THEN <<s>>
        ELSE LET c == CHOOSE i \in commas : \A j \in commas : i <= j
             IN  <<SubSeq(s, 1, c - 1)>> \o SplitComma(SubSeq(s, c + 1, Len(s)))

\* Mutant of Sorted: the descending list.
RECURSIVE SortedDescending(_)
SortedDescending(S) ==
    IF S = {} THEN <<>>
    ELSE LET m == CHOOSE x \in S : \A y \in S : x >= y
         IN  <<m>> \o SortedDescending(S \ {m})

\* sorted(keys): the ascending list of a finite set of numbers.
RECURSIVE Sorted(_)
Sorted(S) ==
    IF S = {} THEN <<>>
    ELSE LET m == CHOOSE x \in S : \A y \in S : x <= y
         IN  <<m>> \o Sorted(S \ {m})

SeqRange(s) == {s[i] : i \in DOMAIN s}

(* --------------------------- class registry --------------------------- *)

\* The classes the ptp namespace exposes by short name, each with its
\* ancestor chain (inspect.getmro).
Namespace == {"MNIST", "LeNet5", "NLLLoss", "DataDict"}

Mro(cls) ==
    CASE cls = "MNIST"    -> <<"MNIST", "Problem", "Component", "object">>
      [] cls = "LeNet5"   -> <<"LeNet5", "Model", "Component", "object">>
      [] cls = "NLLLoss"  -> <<"NLLLoss", "Loss", "Component", "object">>
      [] cls = "DataDict" -> <<"DataDict", "object">>

\* The slots a class declares (input_data_definitions / output_data_definitions).
InputSlots(cls) ==
    CASE cls = "LeNet5"  -> {"inputs"}
      [] cls = "NLLLoss" -> {"predictions", "targets"}
      [] OTHER           -> {}

OutputSlots(cls) ==
    CASE cls = "MNIST"   -> {"inputs", "targets"}
      [] cls = "LeNet5"  -> {"predictions"}
      [] cls = "NLLLoss" -> {"loss"}
      [] OTHER           -> {}

\* for c in inspect.getmro(class_obj): if c.__name__ == base.__name__
Inherits(cls, base) == \E i \in DOMAIN Mro(cls) : Mro(cls)[i] = base

(* -------------------------- create_component -------------------------- *)

NoClass == "-"
NoComponent == [name |-> "-", class |-> NoClass]

\* Lines 84-89: a type name holding "ptp." is evaluated as an expression,
\* any other is looked up with getattr(ptp, name).  Either way a name the
\* namespace does not hold raises AttributeError (NameError for eval of an
\* unknown root), which is not a ConfigurationError.
ResolveClass(c_type) ==
    IF \E i \in DOMAIN c_type : c_type[i] = "ptp."
    THEN IF Len(c_type) = 2 /\ c_type[1] = "ptp." /\ c_type[2] \in Namespace
         THEN [exc |-> "none", class |-> c_type[2]]
         ELSE [exc |-> "AttributeError", class |-> NoClass]
    ELSE IF Len(c_type) = 1 /\ c_type[1] \in Namespace
         THEN [exc |-> "none", class |-> c_type[1]]
         ELSE [exc |-> "AttributeError", class |-> NoClass]

\* create_component(name, params): [exc, component, class].
CreateComponent(name, section) ==
    IF "type" \notin DOMAIN section
    THEN [exc |-> "ConfigurationError", component |-> NoComponent, class |-> NoClass]
    ELSE LET r == ResolveClass(section["type"])
         IN  IF r.exc # "none"
             THEN [exc |-> r.exc, component |-> NoComponent, class |-> NoClass]
             ELSE IF ~Inherits(r.class, "Component")
             THEN [exc |-> "ConfigurationError", component |-> NoComponent,
                   class |-> NoClass]
             ELSE [exc |-> "none",
                   component |-> [name |-> name, class |-> r.class],
                   class |-> r.class]

(* ---------------------------- the Pipeline ---------------------------- *)

NoProblem == NoComponent

Fields == [problem |-> problem, components |-> components,
           priorities |-> priorities, models |-> models, losses |-> losses]

EmptyRegistry == [p \in {} |-> NoComponent]

NoArg == [key |-> "-", body |-> [none |-> TRUE]]

NoResult == [op |-> "init", exc |-> "none", ret |-> 0, log |-> <<>>, arg |-> NoArg]

\* Pipeline.__init__: no assignment to self.__priorities.
InitPipeline ==
    /\ problem = NoProblem
    /\ components = EmptyRegistry
    /\ priorities = [defined |-> FALSE, list |-> <<>>]
    /\ models = <<>>
    /\ losses = <<>>
    /\ pre = [problem |-> NoProblem, components |-> EmptyRegistry,
              priorities |-> [defined |-> FALSE, list |-> <<>>],
              models |-> <<>>, losses |-> <<>>]
    /\ result = NoResult

(* --------------------------- create_problem --------------------------- *)

\* create_problem(name, params): a ConfigurationError is swallowed into the
\* count; any other exception of create_component leaves the method.
CreateProblem(name, section) ==
    LET cc == CreateComponent(name, section)
        ok == cc.exc = "none" /\ Inherits(cc.class, "Problem")
    IN  /\ pre' = Fields
        /\ problem' = IF ok THEN cc.component ELSE problem
        /\ result' = [op  |-> "create_problem",
                      exc |-> IF cc.exc \in {"none", "ConfigurationError"}
                              THEN "none" ELSE cc.exc,
                      ret |-> IF ok THEN 0 ELSE 1,
                      log |-> <<>>,
                      arg |-> [key |-> name, body |-> section]]
        /\ UNCHANGED <<components, priorities, models, losses, params>>

(* --------------------------- build_pipeline --------------------------- *)

\* "skip optimizer gradient_clipping terminal_conditions seed_torch seed_numpy".split()
ReservedSections ==
    <<"skip", "optimizer", "gradient_clipping", "terminal_conditions",
      "seed_torch", "seed_numpy">>

\* sections_to_skip (lines 160-163), each name as its sequence of pieces.
SectionsToSkip(cfg) ==
    {<<ReservedSections[i]>> : i \in DOMAIN ReservedSections}
    \cup (IF "skip" \in DOMAIN cfg THEN SeqRange(SplitComma(cfg.skip)) ELSE {})

\* params.items(): the sections in their declared order; the skip value is
\* an entry of the mapping too.
ParamsItems(cfg) ==
    (IF "skip" \in DOMAIN cfg
     THEN <<[key |-> "skip", body |-> [value |-> cfg.skip]]>> ELSE <<>>)
    \o cfg.items

\* Mutant of PriorityTaken: the uniqueness check is missing.
PriorityNeverTaken(reg, prio) == FALSE

\* Line 193: c_priority in self.__components.keys()
PriorityTaken(reg, prio) == prio \in DOMAIN reg

\* Line 197: self.__components[c_priority] = component
Register(reg, prio, comp) ==
    [p \in DOMAIN reg \cup {prio} |-> IF p = prio THEN comp ELSE reg[p]]

\* Mutant of ConfigError: the error is logged and not counted.
ConfigErrorUncounted(st, why) == [st EXCEPT !.log = Append(@, why)]

\* Lines 218-222: except ConfigurationError: log, errors += 1, continue.
ConfigError(st, why) ==
    [st EXCEPT !.errors = @ + 1, !.log = Append(@, why)]

\* One pass of the loop body (lines 165-222) over one section.
BuildSection(st, item, skip) ==
    IF <<item.key>> \in skip
    THEN [st EXCEPT !.log = Append(@, "skipped")]
    ELSE LET cc == CreateComponent(item.key, item.body)
         IN
         IF cc.exc = "ConfigurationError"
         THEN ConfigError(st, IF "type" \in DOMAIN item.body
                              THEN "not a Component" ELSE "no type")
         ELSE IF cc.exc # "none"
         THEN [st EXCEPT !.exc = cc.exc, !.log = Append(@, "raised")]
         ELSE IF Inherits(cc.class, "Problem")
         THEN ConfigError(st, "is a Problem")
         ELSE IF "priority" \notin DOMAIN item.body
         THEN ConfigError(st, "no priority")
         ELSE LET pf == ParseFloat(item.body["priority"])
              IN
              IF ~pf.ok
              THEN ConfigError(st, "priority not a float")
              ELSE IF PriorityTaken(st.components, pf.value)
              THEN ConfigError(st, "duplicate priority")
              ELSE [st EXCEPT
                       !.components = Register(@, pf.value, cc.component),
                       !.models = IF Inherits(cc.class, "Model")
                                  THEN Append(@, cc.component) ELSE @,
                       !.losses = IF Inherits(cc.class, "Loss")
                                  THEN Append(@, cc.component) ELSE @,
                       !.log = Append(@, "registered")]

\* Mutant of BuildLoop: the first counted error ends the loop (break for
\* continue).
RECURSIVE BuildLoopBreak(_, _, _)
BuildLoopBreak(st, items, skip) ==
    IF items = <<>> \/ st.exc # "none" \/ st.errors > 0 THEN st
    ELSE BuildLoopBreak(BuildSection(st, Head(items), skip), Tail(items), skip)

\* The for loop: an exception that is not a ConfigurationError ends it.
RECURSIVE BuildLoop(_, _, _)
BuildLoop(st, items, skip) ==
    IF items = <<>> \/ st.exc # "none" THEN st
    ELSE BuildLoop(BuildSection(st, Head(items), skip), Tail(items), skip)

LoopStart(f) ==
    [components |-> f.components, models |-> f.models, losses |-> f.losses,
     errors |-> 0, exc |-> "none", log |-> <<>>]

\* The state of the loop of build_pipeline(cfg), started on fields f, after
\* its first k entries.
BuildPrefix(f, cfg, k) ==
    BuildLoop(LoopStart(f), SubSeq(ParamsItems(cfg), 1, k), SectionsToSkip(cfg))

BuildRun(f, cfg) == BuildPrefix(f, cfg, Len(ParamsItems(cfg)))

\* build_pipeline(params): the whole call.  Line 226 is reached only when the
\* loop ends without an exception.
BuildPipeline(cfg) ==
    \E st \in {BuildRun(Fields, cfg)} :
        /\ pre' = Fields
        /\ params' = cfg
        /\ components' = st.components
        /\ models' = st.models
        /\ losses' = st.losses
        /\ priorities' = IF st.exc = "none"
                         THEN [defined |-> TRUE, list |-> Sorted(DOMAIN st.components)]
                         ELSE priorities
        /\ result' = [op |-> "build_pipeline", exc |-> st.exc,
                      ret |-> st.errors, log |-> st.log, arg |-> NoArg]
        /\ UNCHANGED problem

(* --------------------------- introspection ---------------------------- *)

\* Pipeline.__len__ on fields f: reads self.__priorities.
PipelineLen(f) ==
    IF ~f.priorities.defined
    THEN [exc |-> "AttributeError", value |-> 0]
    ELSE [exc |-> "none",
          value |-> Len(f.priorities.list)
                    + (IF f.problem # NoProblem THEN 1 ELSE 0)]

\* Pipeline.__getitem__(number) on fields f: a list index, negative from the end.
GetItem(f, number) ==
    IF ~f.priorities.defined
    THEN [exc |-> "AttributeError", priority |-> 0, component |-> NoComponent]
    ELSE LET n == Len(f.priorities.list)
             i == IF number < 0 THEN number + n ELSE number
         IN  IF i < 0 \/ i >= n
             THEN [exc |-> "IndexError", priority |-> 0, component |-> NoComponent]
             ELSE [exc |-> "none", priority |-> f.priorities.list[i + 1],
                   component |-> f.components[f.priorities.list[i + 1]]]

(* ------------------------------ handshake ----------------------------- *)

\* comp.handshake_input_definitions(all_definitions): one error for each
\* required slot the definitions lack.
HandshakeInputDefinitions(comp, defs) ==
    Cardinality(InputSlots(comp.class) \ defs)

\* comp.export_output_definitions(all_definitions): the definitions with the
\* declared outputs merged in.  Its error count is the component's own.
ExportOutputDefinitions(comp, defs) == defs \cup OutputSlots(comp.class)

\* The counts an export step may report.
ExportCounts == {0, 1}

\* Mutant of InitialDefinitions: the walk starts from no definitions.
NoInitialDefinitions(p) == {}

\* Line 309: all_definitions = self.problem.output_data_definitions()
InitialDefinitions(p) == OutputSlots(p.class)

\* One pass of the loop body (lines 312-317).
HandshakeStep(st, prio, reg, exportErrors) ==
    LET comp == reg[prio]
        ie   == HandshakeInputDefinitions(comp, st.defs)
    IN  [errors |-> st.errors + ie + exportErrors[prio],
         defs   |-> ExportOutputDefinitions(comp, st.defs),
         log    |-> Append(st.log, [priority |-> prio, component |-> comp,
                                    seen |-> st.defs, inputErrors |-> ie,
                                    exportErrors |-> exportErrors[prio]])]

RECURSIVE HandshakeLoop(_, _, _, _)
HandshakeLoop(st, prios, reg, exportErrors) ==
    IF prios = <<>> THEN st
    ELSE HandshakeLoop(HandshakeStep(st, Head(prios), reg, exportErrors),
                       Tail(prios), reg, exportErrors)

\* handshake(): self.problem.output_data_definitions() first, then the walk
\* over self.__priorities.
Handshake ==
    /\ pre' = Fields
    /\ IF problem = NoProblem \/ ~priorities.defined
       THEN result' = [op |-> "handshake", exc |-> "AttributeError", ret |-> 0,
                       log |-> <<>>, arg |-> NoArg]
       ELSE \E exportErrors \in [SeqRange(priorities.list) -> ExportCounts] :
              \E st \in {HandshakeLoop([errors |-> 0,
                                         defs |-> InitialDefinitions(problem),
                                         log |-> <<>>],
                                        priorities.list, components, exportErrors)} :
                  result' = [op |-> "handshake", exc |-> "none",
                             ret |-> st.errors, log |-> st.log, arg |-> NoArg]
    /\ UNCHANGED <<problem, components, priorities, models, losses, params>>

(* ------------------------------ execution ----------------------------- *)

\* comp(data_dict): the forward step adds the component's outputs to the
\* container, or raises.
Forward(comp, data) == data \cup OutputSlots(comp.class)

\* The loop of __call__ (lines 338-342); the components at the priorities in
\* failing raise in their forward step.
RECURSIVE CallLoop(_, _, _, _)
CallLoop(st, prios, reg, failing) ==
    IF prios = <<>> \/ st.exc # "none" THEN st
    ELSE LET prio == Head(prios)
             comp == reg[prio]
             seen == Append(st.log, [priority |-> prio, component |-> comp,
                                     seen |-> st.data])
         IN  CallLoop(IF prio \in failing
                      THEN [st EXCEPT !.exc = "RuntimeError", !.log = seen]
                      ELSE [st EXCEPT !.data = Forward(comp, @), !.log = seen],
                      Tail(prios), reg, failing)

\* The containers handed to __call__: empty, or as a Problem fills it.
DataDicts == {{}, OutputSlots("MNIST")}

\* Pipeline.__call__(data_dict).
Call(data_dict, failing) ==
    /\ pre' = Fields
    /\ IF ~priorities.defined
       THEN result' = [op |-> "call", exc |-> "AttributeError", ret |-> 0,
                       log |-> <<>>, arg |-> NoArg]
       ELSE \E st \in {CallLoop([exc |-> "none", data |-> data_dict, log |-> <<>>],
                                 priorities.list, components, failing)} :
                result' = [op |-> "call", exc |-> st.exc, ret |-> 0,
                           log |-> st.log,
                           arg |-> [key |-> "data_dict",
                                    body |-> [value |-> data_dict]]]
    /\ UNCHANGED <<problem, components, priorities, models, losses, params>>

(* ------------------------------- inputs ------------------------------- *)

RECURSIVE SeqsUpTo(_, _)
SeqsUpTo(S, n) ==
    IF n = 0 THEN {<<>>}
    ELSE LET shorter == SeqsUpTo(S, n - 1)
         IN  shorter \cup {Append(s, x) : s \in shorter, x \in S}

\* Section bodies: one for each way a section fails, and valid ones at the
\* priorities 0.5, 1 (written "1" and "1.0") and 2.
Bodies ==
    { [priority |-> <<"1">>],
      [type |-> <<"Nope">>,           priority |-> <<"2">>],
      [type |-> <<"DataDict">>,       priority |-> <<"1">>],
      [type |-> <<"MNIST">>,          priority |-> <<"1">>],
      [type |-> <<"LeNet5">>],
      [type |-> <<"LeNet5">>,         priority |-> <<"x">>],
      [type |-> <<"LeNet5">>,         priority |-> <<"1">>],
      [type |-> <<"ptp.", "LeNet5">>, priority |-> <<"1", ".", "0">>],
      [type |-> <<"NLLLoss">>,        priority |-> <<"2">>],
      [type |-> <<"NLLLoss">>,        priority |-> <<"0", ".", "5">>] }

SectionNames == <<"a", "b", "c", "d", "e">>

Keyed(bodies, first) ==
    [i \in DOMAIN bodies |->
        [key  |-> IF i = 1 /\ first # "" THEN first ELSE SectionNames[i],
         body |-> bodies[i]]]

\* The configurations SpecBuild draws: sections named in order, the first
\* one possibly under a reserved name, or with a skip value.
Configs ==
    LET B == SeqsUpTo(Bodies, MaxSections)
    IN  {[items |-> Keyed(b, "")] : b \in B}
        \cup {[items |-> Keyed(b, "optimizer")] : b \in B \ {<<>>}}
        \cup {[items |-> Keyed(b, ""), skip |-> <<"b", ",", " ", "a">>] : b \in B}

\* The sections the calls of Spec are made of.
LifeSections ==
    { [key |-> "a", body |-> [type |-> <<"LeNet5">>, priority |-> <<"1">>]],
      [key |-> "b", body |-> [type |-> <<"NLLLoss">>, priority |-> <<"2">>]],
      [key |-> "d", body |-> [type |-> <<"Nope">>, priority |-> <<"2">>]],
      [key |-> "f", body |-> [type |-> <<"NLLLoss">>,
                              priority |-> <<"0", ".", "5">>]] }

\* A mapping holds each key once.
LifeConfigs ==
    {[items |-> s] : s \in {t \in SeqsUpTo(LifeSections, MaxRebuild) :
                              \A i, j \in DOMAIN t : i # j => t[i].key # t[j].key}}

ProblemSections ==
    { [key |-> "problem", body |-> [batch_size |-> <<"64">>]],
      [key |-> "problem", body |-> [type |-> <<"Nope">>]],
      [key |-> "problem", body |-> [type |-> <<"DataDict">>]],
      [key |-> "problem", body |-> [type |-> <<"LeNet5">>]],
      [key |-> "training", body |-> [type |-> <<"MNIST">>]],
      [key |-> "validation", body |-> [type |-> <<"ptp.", "MNIST">>]] }

(* --------------------------- specifications --------------------------- *)

\* A new Pipeline; no configuration passed yet.
Init ==
    /\ InitPipeline
    /\ params = [items |-> <<>>]

DoCreateProblem == \E s \in ProblemSections : CreateProblem(s.key, s.body)

DoBuildPipeline == \E cfg \in LifeConfigs : BuildPipeline(cfg)

DoCall ==
    \E data_dict \in DataDicts :
        \E failing \in {{}} \cup {{p} : p \in SeqRange(priorities.list)} :
            Call(data_dict, failing)

Next == DoCreateProblem \/ DoBuildPipeline \/ Handshake \/ DoCall

Spec == Init /\ [][Next]_vars

\* A new Pipeline on which create_problem has stored a Problem, and a
\* configuration drawn from Configs, which every build_pipeline call is given.
TrainingProblem == [key |-> "training", body |-> [type |-> <<"MNIST">>]]

InitBuild ==
    /\ problem = CreateComponent(TrainingProblem.key, TrainingProblem.body).component
    /\ components = EmptyRegistry
    /\ priorities = [defined |-> FALSE, list |-> <<>>]
    /\ models = <<>>
    /\ losses = <<>>
    /\ pre = [problem |-> NoProblem, components |-> EmptyRegistry,
              priorities |-> [defined |-> FALSE, list |-> <<>>],
              models |-> <<>>, losses |-> <<>>]
    /\ result = [op |-> "create_problem", exc |-> "none", ret |-> 0,
                 log |-> <<>>, arg |-> TrainingProblem]
    /\ params \in Configs

BuildGiven == BuildPipeline(params)

NextBuild == BuildGiven

SpecBuild == InitBuild /\ [][NextBuild]_vars

(* ------------------- vocabulary of the properties --------------------- *)

Built == result.op = "build_pipeline"

Items == ParamsItems(params)

\* The fields of a Pipeline nothing was registered in.
Fresh(f) ==
    /\ f.components = EmptyRegistry
    /\ ~f.priorities.defined
    /\ f.models = <<>>
    /\ f.losses = <<>>

IsReserved(key) ==
    key \in {"skip", "optimizer", "gradient_clipping", "terminal_conditions",
             "seed_torch", "seed_numpy"}

\* key stands in the skip value between two commas (or an end of the value).
ListedInSkip(cfg, key) ==
    /\ "skip" \in DOMAIN cfg
    /\ \E i \in DOMAIN cfg.skip :
         /\ cfg.skip[i] = key
         /\ i = 1 \/ cfg.skip[i - 1] = ","
         /\ i = Len(cfg.skip) \/ cfg.skip[i + 1] = ","

Exempt(cfg, item) == IsReserved(item.key) \/ ListedInSkip(cfg, item.key)

HasType(b) == "type" \in DOMAIN b
Resolves(b) == HasType(b) /\ ResolveClass(b["type"]).exc = "none"
Unresolvable(b) == HasType(b) /\ ~Resolves(b)
ClassOf(b) == ResolveClass(b["type"]).class
IsComponentClass(b) == Resolves(b) /\ Inherits(ClassOf(b), "Component")
IsProblemClass(b) == Resolves(b) /\ Inherits(ClassOf(b), "Problem")
HasPriority(b) == "priority" \in DOMAIN b
NumericPriority(b) == HasPriority(b) /\ ParseFloat(b["priority"]).ok
PriorityValue(b) == ParseFloat(b["priority"]).value

\* A valid component section: its type resolves to a Component class that is
\* no Problem, and its priority parses as a number.
ValidSection(b) ==
    IsComponentClass(b) /\ ~IsProblemClass(b) /\ NumericPriority(b)

\* The positions of the sections that are not exempt.
Stages == {k \in DOMAIN Items : ~Exempt(params, Items[k])}

\* The component a valid section is instantiated as.
InstanceOf(item) == [name |-> item.key, class |-> ClassOf(item.body)]

\* The configured priority of the section a component was created from.
ConfiguredPriority(comp) ==
    PriorityValue(Items[CHOOSE k \in Stages : Items[k].key = comp.name].body)

(* -------------------------------- C1 ---------------------------------- *)

AllValidDistinct ==
    /\ \A k \in Stages : ValidSection(Items[k].body)
    /\ \A j, k \in Stages :
         j # k => PriorityValue(Items[j].body) # PriorityValue(Items[k].body)

\* C1: on a fresh Pipeline holding a Problem, build_pipeline over N valid
\* component sections with pairwise distinct priorities returns 0, the length
\* is N + 1, and pipeline[0..N-1] are the sections' components in strictly
\* ascending order of their configured priorities, whatever the order of the
\* sections.
C1_ValidBuildIsSorted ==
    (Built /\ Fresh(pre) /\ pre.problem # NoProblem /\ AllValidDistinct)
    => LET n == Cardinality(Stages)
       IN  /\ result.exc = "none"
           /\ result.ret = 0
           /\ PipelineLen(Fields) = [exc |-> "none", value |-> n + 1]
           /\ \A i \in 0 .. n - 1 :
                /\ GetItem(Fields, i).exc = "none"
                /\ \E k \in Stages : GetItem(Fields, i).component = InstanceOf(Items[k])
           /\ \A i, j \in 0 .. n - 1 :
                i < j => ConfiguredPriority(GetItem(Fields, i).component)
                         < ConfiguredPriority(GetItem(Fields, j).component)

\* Three valid sections, declared with the largest priority first and the
\* smallest last.
C1_Witness ==
    /\ Built /\ Fresh(pre) /\ pre.problem # NoProblem /\ AllValidDistinct
    /\ Cardinality(Stages) = 3
    /\ \A j, k \in Stages :
         j < k => PriorityValue(Items[j].body) > PriorityValue(Items[k].body)
    /\ GetItem(Fields, 0).component.name = Items[Len(Items)].key

(* -------------------------------- C2 ---------------------------------- *)

\* The loop of the last build_pipeline call after its first k entries.
After(k) == BuildPrefix(pre, params, k)

\* Section k reaches the uniqueness check with a priority that is taken.
MeetsTakenPriority(k) ==
    /\ k \in Stages
    /\ ValidSection(Items[k].body)
    /\ PriorityValue(Items[k].body) \in DOMAIN After(k - 1).components

Listed(reg, base) ==
    Cardinality({p \in DOMAIN reg : Inherits(reg[p].class, base)})

\* C2: a section whose priority equals that of a registered component (from
\* an earlier section or an earlier call) adds exactly one error and changes
\* neither the registry nor the models and losses lists; no registered
\* component is ever replaced, and each registered Model and Loss is listed
\* exactly once.
C2_DuplicatePriorityRejected ==
    /\ Built =>
         \A k \in 1 .. Len(result.log) :
            MeetsTakenPriority(k) =>
               \A bef \in {After(k - 1)}, aft \in {After(k)} :
                  LET p == PriorityValue(Items[k].body)
                  IN  /\ result.log[k] = "duplicate priority"
                      /\ aft.errors = bef.errors + 1
                      /\ aft.components = bef.components
                      /\ aft.models = bef.models
                      /\ aft.losses = bef.losses
                      /\ components[p] = bef.components[p]
    /\ \A p \in DOMAIN pre.components :
         p \in DOMAIN components /\ components[p] = pre.components[p]
    /\ Len(models) = Listed(components, "Model")
    /\ Len(losses) = Listed(components, "Loss")

\* The second of two sections of one call with priority 1 ("1", then "1.0")
\* was rejected, and a later section was still registered.
C2_Witness ==
    /\ Built /\ result.exc = "none"
    /\ \E k \in 1 .. Len(result.log) :
         /\ MeetsTakenPriority(k)
         /\ PriorityValue(Items[k].body) \notin DOMAIN pre.components
         /\ Items[k].body["priority"] = <<"1", ".", "0">>
         /\ components[PriorityValue(Items[k].body)].name # Items[k].key
         /\ \E j \in k + 1 .. Len(result.log) : result.log[j] = "registered"

(* -------------------------------- C10 --------------------------------- *)

\* C10: in every reachable state the cached execution order is defined and is
\* the ascending list of the registry's keys, so the length is the number of
\* registered components plus one for a stored Problem.
C10_CacheMatchesRegistry ==
    /\ priorities.defined
    /\ priorities.list = Sorted(DOMAIN components)
    /\ PipelineLen(Fields) =
         [exc |-> "none",
          value |-> Cardinality(DOMAIN components)
                    + (IF problem # NoProblem THEN 1 ELSE 0)]

(* -------------------------------- C3 ---------------------------------- *)

FourKindErrors == {"no type", "no priority", "not a Component", "is a Problem"}

\* The section lacks type, lacks priority, or resolves to a class that is no
\* Component or that is a Problem.
FailsOfFourKinds(b) ==
    \/ ~HasType(b)
    \/ ~HasPriority(b)
    \/ Resolves(b) /\ ~IsComponentClass(b)
    \/ IsProblemClass(b)

\* No component named after section k is in the registry or the lists.
Absent(k) ==
    /\ \A p \in DOMAIN components : components[p].name # Items[k].key
    /\ \A i \in DOMAIN models : models[i].name # Items[k].key
    /\ \A i \in DOMAIN losses : losses[i].name # Items[k].key

RegisteredAs(k) ==
    /\ PriorityValue(Items[k].body) \in DOMAIN components
    /\ components[PriorityValue(Items[k].body)] = InstanceOf(Items[k])

Taken(k) ==
    /\ NumericPriority(Items[k].body)
    /\ \/ PriorityValue(Items[k].body) \in DOMAIN pre.components
       \/ \E j \in Stages :
            /\ j < k
            /\ ValidSection(Items[j].body)
            /\ PriorityValue(Items[j].body) = PriorityValue(Items[k].body)

\* Section k ends in a ConfigurationError.
ConfigFailure(k) ==
    LET b == Items[k].body
    IN  \/ ~HasType(b)
        \/ /\ Resolves(b)
           /\ \/ ~IsComponentClass(b)
              \/ IsProblemClass(b)
              \/ ~NumericPriority(b)
              \/ Taken(k)

CreationFails(b) ==
    ~HasType(b) \/ Unresolvable(b) \/ (Resolves(b) /\ ~IsComponentClass(b))

\* C5: every section whose creation fails in one of the three ways adds one
\* to the error count of build_pipeline, which goes on with the remaining
\* sections and returns.
C5_CreationFailuresCollected ==
    Built =>
       /\ result.exc = "none"
       /\ Len(result.log) = Len(Items)
       /\ \A k \in Stages :
            CreationFails(Items[k].body) =>
               After(k).errors = After(k - 1).errors + 1

(* -------------------------------- C7 ---------------------------------- *)

\* The permutations of 1..n.
PermTable ==
    [n \in 0 .. MaxSections |->
        {f \in [1 .. n -> 1 .. n] : \A i, j \in 1 .. n : i # j => f[i] # f[j]}]

Permuted(cfg, f) ==
    [cfg EXCEPT !.items = [i \in DOMAIN cfg.items |-> cfg.items[f[i]]]]

ValidPrioritiesDistinct ==
    \A j, k \in Stages :
       (j # k /\ ValidSection(Items[j].body) /\ ValidSection(Items[k].body))
       => PriorityValue(Items[j].body) # PriorityValue(Items[k].body)

NotTreated(k) == k > Len(result.log) \/ result.log[k] = "skipped"

\* C8: a section is never treated as a component exactly when its name is
\* reserved or listed in the skip value; every other section is processed as
\* a component section.
C8_SkippedExactlyWhenListed ==
    Built =>
       \A k \in DOMAIN Items : NotTreated(k) <=> Exempt(params, Items[k])

(* -------------------------------- C6 ---------------------------------- *)

\* C6: create_problem returns 0 or 1 and never raises; it returns 0 and
\* stores the new instance exactly when the class implements Problem, and
\* otherwise returns 1 and changes nothing.
C6_CreateProblemNeverRaises ==
    result.op = "create_problem" =>
       LET b == result.arg.body
       IN  /\ result.exc = "none"
           /\ result.ret \in {0, 1}
           /\ result.ret = 0 <=> IsProblemClass(b)
           /\ result.ret = 0 =>
                problem = [name |-> result.arg.key, class |-> ClassOf(b)]
           /\ result.ret = 1 => problem = pre.problem
           /\ components = pre.components
           /\ priorities = pre.priorities
           /\ models = pre.models
           /\ losses = pre.losses

(* -------------------------------- C9 ---------------------------------- *)

\* The keys the components below position i of an order add to a container.
WrittenBelow(order, reg, i) ==
    UNION {OutputSlots(reg[order[j]].class) : j \in 1 .. i - 1}

\* C9: an execution pass invokes the forward step of every registered
\* component exactly once, in ascending priority order, each on the container
\* holding what the components below it wrote; the Problem is not invoked; a
\* forward step that raises ends the pass at that component.
C9_EveryComponentOnceInOrder ==
    result.op = "call" =>
       LET order   == Sorted(DOMAIN components)
           visited == result.log
       IN  /\ result.exc # "RuntimeError" => Len(visited) = Len(order)
           /\ Len(visited) <= Len(order)
           /\ \A i \in DOMAIN visited :
                /\ visited[i].priority = order[i]
                /\ visited[i].component = components[order[i]]
                /\ visited[i].seen =
                     result.arg.body.value \cup WrittenBelow(order, components, i)
           /\ \A i \in DOMAIN visited :
                problem # NoProblem => visited[i].component # problem

(* -------------------------------- C4 ---------------------------------- *)

\* The component at position i of the order finds its required slots among
\* the Problem's outputs and the outputs of the components below it.
Satisfied(order, reg, i) ==
    InputSlots(reg[order[i]].class)
       \subseteq (OutputSlots(problem.class) \cup WrittenBelow(order, reg, i))

====
